---- MODULE Spec2Model ----
(***************************************************************************)
(* Model of pollution.py: five pure aggregation functions over an          *)
(* in-memory table of pollution rows.  The table is drawn once (Init) and  *)
(* never mutated; every action is one call of one library function, whose  *)
(* arguments and result are recorded in the state.                         *)
(*                                                                         *)
(* Numbers: pollutant values are integers ("real, whole numbers",          *)
(* pollution.py:10), so sums are exact.  A division gives a binary64       *)
(* float, modelled exactly: 53 significand bits, round to nearest even,    *)
(* and the non-finite outcomes nan and inf of a division by zero.          *)
(***************************************************************************)
EXTENDS Integers, Sequences, FiniteSets, TLC

VARIABLES
  table,      \* df: the rows, in table order
  op,         \* the function called last, "none" between calls
  country,    \* its country argument
  pollutant,  \* its pollutant argument
  top_n,      \* its top_n argument
  frame,      \* the locals first and last of percent_change_first_last_year
  ret         \* what the call returned or raised

vars == <<table, op, country, pollutant, top_n, frame, ret>>

-----------------------------------------------------------------------------
(* Bounds of the model *)

MaxRows == 3

MaxTopN == 2

(* the longest table of the specification SpecSummary *)
MaxSummaryRows == 7

(* Country labels that occur in the bounded tables *)
Countries == {"X", "Y", "World"}

(* Year values that occur in the bounded tables *)
Years == {1750, 2019}

(* The seven pollutant columns, in the argument order of calc_total_emissions *)
Pollutants ==
  <<"Nitrogen Oxide", "Sulphur Dioxide", "Carbon Monoxide", "Organic Carbon",
    "NMVOCs", "Black Carbon", "Ammonia">>

(* Pollutant names passed as the pollutant argument *)
QueryPollutants == {"Nitrogen Oxide", "Ammonia"}

(* Seven-value measurement vectors that occur in the bounded tables *)
Measurements ==
  { <<0, 0, 0, 0, 0, 0, 0>>,
    <<100, 0, 0, 0, 0, 0, 2>>,
    <<150, 1, 1, 1, 1, 1, 0>> }

Columns == {"Country", "Year"} \cup {Pollutants[i] : i \in 1..Len(Pollutants)}

PollutantIndex(col) == CHOOSE i \in 1..Len(Pollutants) : Pollutants[i] = col

MkRow(c, y, m) ==
  [col \in Columns |->
     IF col = "Country" THEN c
     ELSE IF col = "Year" THEN y
     ELSE m[PollutantIndex(col)]]

(* the rows of the bounded tables: every row of X, the rows of Y with      *)
(* emissions, and a row of the aggregate label World with the largest total *)
Rows ==
  {MkRow("X", y, m) : y \in Years, m \in Measurements}
    \cup {MkRow("Y", y, m) : y \in Years, m \in Measurements \ {<<0, 0, 0, 0, 0, 0, 0>>}}
    \cup {MkRow("World", 2019, <<150, 1, 1, 1, 1, 1, 0>>)}

Tables == UNION {[1..n -> Rows] : n \in 0..MaxRows}

(* longer tables of one country, with row totals 4 and 5 *)
SummaryRows ==
  {MkRow("X", 1750, <<4, 0, 0, 0, 0, 0, 0>>),
   MkRow("X", 1750, <<4, 0, 0, 0, 0, 0, 1>>),
   MkRow("X", 2019, <<4, 0, 0, 0, 0, 0, 0>>)}

SummaryTables == UNION {[1..n -> SummaryRows] : n \in 0..MaxSummaryRows}

TopNs == (0 - 1)..MaxTopN

-----------------------------------------------------------------------------
(* Floats: IEEE 754 binary64, the type of every division result.  A finite *)
(* non-zero float is s * M * 2^(e - 52) with a 53-bit significand M,        *)
(* 2^52 <= M < 2^53, kept as four limbs m = <<m1, m2, m3, m4>> in base      *)
(* 2^13, M = m1 * 2^39 + m2 * 2^26 + m3 * 2^13 + m4, the top limb holding   *)
(* 14 bits.  Results are rounded to nearest, ties to even.  The values met  *)
(* here are integers below 2^17 and their quotients, far from the exponent  *)
(* limits.  -0.0, which compares equal to 0.0, is not told apart from it.   *)

Base == 2 ^ 13

Abs(x) == IF x < 0 THEN 0 - x ELSE x

Sign(x) == IF x < 0 THEN 0 - 1 ELSE IF x > 0 THEN 1 ELSE 0

Zero == [k |-> "zero", s |-> 0, e |-> 0, m |-> <<>>]

NaN == [k |-> "nan", s |-> 0, e |-> 0, m |-> <<>>]

Inf(sign) == [k |-> "inf", s |-> sign, e |-> 0, m |-> <<>>]

(* the significand plus one unit in the last place, with its exponent *)
RoundUp(sign, e, m) ==
  IF m[4] + 1 < Base THEN [k |-> "fin", s |-> sign, e |-> e, m |-> <<m[1], m[2], m[3], m[4] + 1>>]
  ELSE IF m[3] + 1 < Base THEN [k |-> "fin", s |-> sign, e |-> e, m |-> <<m[1], m[2], m[3] + 1, 0>>]
  ELSE IF m[2] + 1 < Base THEN [k |-> "fin", s |-> sign, e |-> e, m |-> <<m[1], m[2] + 1, 0, 0>>]
  ELSE IF m[1] + 1 < 2 * Base THEN [k |-> "fin", s |-> sign, e |-> e, m |-> <<m[1] + 1, 0, 0, 0>>]
  ELSE [k |-> "fin", s |-> sign, e |-> e + 1, m |-> <<Base, 0, 0, 0>>]

(* round to nearest, ties to even: above tells the discarded part from     *)
(* half a unit in the last place (1 above, 0 equal, -1 below)               *)
Round(sign, e, m, above) ==
  IF above > 0 \/ (above = 0 /\ m[4] % 2 = 1)
  THEN RoundUp(sign, e, m)
  ELSE [k |-> "fin", s |-> sign, e |-> e, m |-> m]

(* the float nearest to x / y, for integers 0 < x, y < 2^17: long division *)
(* in base 2^13 of the quotient scaled into [1, 2)                          *)
PosDiv(sign, x, y) ==
  LET up == IF x >= y
            THEN CHOOSE e \in 0..17 : y * (2 ^ e) <= x /\ y * (2 ^ (e + 1)) > x
            ELSE 0
      down == IF x >= y THEN 0 ELSE CHOOSE k \in 1..17 : x * (2 ^ k) >= y
      num == x * (2 ^ down)
      den == y * (2 ^ up)
      q1 == (num * Base) \div den
      r1 == (num * Base) % den
      q2 == (r1 * Base) \div den
      r2 == (r1 * Base) % den
      q3 == (r2 * Base) \div den
      r3 == (r2 * Base) % den
      q4 == (r3 * Base) \div den
      r4 == (r3 * Base) % den
  IN  Round(sign, up - down, <<q1, q2, q3, q4>>, Sign(2 * r4 - den))

(* true division of two integers: x / 0 warns and gives nan or +-inf *)
TrueDiv(x, y) ==
  IF y = 0 THEN (IF x = 0 THEN NaN ELSE Inf(Sign(x)))
  ELSE IF x = 0 THEN Zero
  ELSE PosDiv(Sign(x) * Sign(y), Abs(x), Abs(y))

(* float(i) of an integer *)
Float(i) == TrueDiv(i, 1)

(* float * integer, 0 < n < 2^7: the exact product, rounded *)
FMul(f, n) ==
  IF f.k # "fin" THEN f
  ELSE LET p4 == f.m[4] * n
           p3 == f.m[3] * n + (p4 \div Base)
           p2 == f.m[2] * n + (p3 \div Base)
           p1 == f.m[1] * n + (p2 \div Base)
           l4 == p4 % Base
           l3 == p3 % Base
           l2 == p2 % Base
           extra == CHOOSE c \in 0..7 : p1 < 2 * Base * (2 ^ c)
           cut == 2 ^ extra
           n1 == p1 \div cut
           n2 == ((p1 % cut) * Base + l2) \div cut
           n3 == ((l2 % cut) * Base + l3) \div cut
           n4 == ((l3 % cut) * Base + l4) \div cut
           lost == l4 % cut
           above == IF extra = 0 THEN 0 - 1 ELSE Sign(2 * lost - cut)
       IN  Round(f.s, f.e + extra, <<n1, n2, n3, n4>>, above)

(* |a| > |b| on finite floats *)
MagGt(a, b) ==
  /\ a.k = "fin"
  /\ \/ b.k = "zero"
     \/ a.e > b.e
     \/ /\ a.e = b.e
        /\ \E i \in 1..4 :
             a.m[i] > b.m[i] /\ \A j \in 1..(i - 1) : a.m[j] = b.m[j]

(* a > b on finite floats *)
FGt(a, b) ==
  IF a.s # b.s THEN a.s > b.s
  ELSE IF a.s > 0 THEN MagGt(a, b)
  ELSE IF a.s < 0 THEN MagGt(b, a)
  ELSE FALSE

-----------------------------------------------------------------------------
(* Helpers on sequences *)

Range(s) == {s[i] : i \in 1..Len(s)}

RECURSIVE SumSeq(_)
SumSeq(s) == IF s = <<>> THEN 0 ELSE s[1] + SumSeq(Tail(s))

SetMin(S) == CHOOSE x \in S : \A y \in S : x <= y

SetMax(S) == CHOOSE x \in S : \A y \in S : x >= y

(* df[df[col] == value]: the matching rows, in table order *)
FilterEq(df, col, value) == SelectSeq(df, LAMBDA r : r[col] = value)

Raise(exc) == [status |-> "raise", exc |-> exc]

-----------------------------------------------------------------------------
(* calc_total_emissions *)

calc_total_emissions(nitrogen, sulfur, carbon, organic, nmvocs, black, ammonia) ==
  nitrogen + sulfur + carbon + organic + nmvocs + black + ammonia

(* the call calc_total_emissions(row['Nitrogen Oxide'], ..., row['Ammonia']) *)
RowTotal(row) ==
  calc_total_emissions(
    row["Nitrogen Oxide"], row["Sulphur Dioxide"], row["Carbon Monoxide"],
    row["Organic Carbon"], row["NMVOCs"], row["Black Carbon"], row["Ammonia"])

-----------------------------------------------------------------------------
(* percent_change_first_last_year *)

(* sort_values('Year') with the default kind='quicksort', which is not a   *)
(* stable sort: every ordering of the rows with non-decreasing Year is a   *)
(* possible outcome.  An ordering is a permutation of the row positions.   *)
(* sort_values('Year', ascending=False) *)
SortValuesYearDescending(data) ==
  LET n == Len(data)
  IN  {p \in [1..n -> 1..n] :
         /\ \A i, j \in 1..n : i # j => p[i] # p[j]
         /\ \A i, j \in 1..n : i < j => data[p[i]]["Year"] >= data[p[j]]["Year"]}

SortValuesYear(data) ==
  LET n == Len(data)
  IN  {p \in [1..n -> 1..n] :
         /\ \A i, j \in 1..n : i # j => p[i] # p[j]
         /\ \A i, j \in 1..n : i < j => data[p[i]]["Year"] <= data[p[j]]["Year"]}

(* (last / first) * 100 *)
PercentOfFirst(first, last) == FMul(TrueDiv(last, first), 100)

PercentChange(first, last) == FMul(TrueDiv(last - first, first), 100)

(* the body of percent_change_first_last_year once the sort returned p *)
percent_change_first_last_year(df, c, pol, p) ==
  LET country_data == FilterEq(df, "Country", c)
      n == Len(country_data)
  IN  IF n = 0 THEN Raise("IndexError")
      ELSE LET first == country_data[p[1]][pol]
               last == country_data[p[n]][pol]
           IN  [status |-> "return",
                change |-> PercentChange(first, last),
                start_year |-> country_data[p[1]]["Year"],
                end_year |-> country_data[p[n]]["Year"]]

(* the locals first and last of that call *)
PercentChangeLocals(df, c, pol, p) ==
  LET country_data == FilterEq(df, "Country", c)
      n == Len(country_data)
  IN  IF n = 0 THEN [first |-> 0, last |-> 0]
      ELSE [first |-> country_data[p[1]][pol], last |-> country_data[p[n]][pol]]

-----------------------------------------------------------------------------
(* yearly_country_totals *)

RECURSIVE SortedAsc(_)
(* sorted(S) of a set of integers *)
SortedAsc(S) ==
  IF S = {} THEN <<>> ELSE <<SetMin(S)>> \o SortedAsc(S \ {SetMin(S)})

(* sorted(country_data['Year']): the years of all rows, duplicates kept *)
SortedYearsWithDuplicates(country_data) ==
  LET n == Len(country_data)
      Rank(i) ==
        1 + Cardinality({j \in 1..n :
              \/ country_data[j]["Year"] < country_data[i]["Year"]
              \/ country_data[j]["Year"] = country_data[i]["Year"] /\ j < i})
  IN  [r \in 1..n |-> country_data[CHOOSE i \in 1..n : Rank(i) = r]["Year"]]

(* sorted(country_data['Year'].unique()) *)
unique_years(country_data) ==
  SortedAsc({country_data[i]["Year"] : i \in 1..Len(country_data)})

(* country_data[country_data['Year'] == year].drop_duplicates('Year') *)
YearDataDeduplicated(country_data, year) ==
  SubSeq(FilterEq(country_data, "Year", year), 1, 1)

(* country_data[country_data['Year'] == year] *)
year_data(country_data, year) == FilterEq(country_data, "Year", year)

(* the loop over year_data.iterrows() accumulating total *)
YearTotal(rows) == SumSeq([i \in 1..Len(rows) |-> RowTotal(rows[i])])

(* year_data[pollutant].sum() *)
ColumnSum(rows, pol) == SumSeq([i \in 1..Len(rows) |-> rows[i][pol]])

yearly_country_totals(df, c, pol) ==
  LET country_data == FilterEq(df, "Country", c)
      ys == unique_years(country_data)
  IN  [status |-> "return",
       years |-> ys,
       total_emissions |->
         [i \in 1..Len(ys) |-> YearTotal(year_data(country_data, ys[i]))],
       pollutant_emissions |->
         [i \in 1..Len(ys) |-> ColumnSum(year_data(country_data, ys[i]), pol)]]

-----------------------------------------------------------------------------
(* analyze_pollution_for_country *)

(* sum(totals) // len(totals) *)
FloorMean(totals) ==
  IF totals = <<>> THEN NaN ELSE Float(SumSeq(totals) \div Len(totals))

(* np.mean: the mean of an empty list warns and is nan *)
np_mean(totals) ==
  IF totals = <<>> THEN NaN ELSE TrueDiv(SumSeq(totals), Len(totals))

(* max(totals, default=0) *)
MaxWithDefault(totals) ==
  [status |-> "return",
   value |-> IF totals = <<>> THEN 0 ELSE SetMax(Range(totals))]

(* np.max: the maximum of an empty list raises ValueError *)
np_max(totals) ==
  IF totals = <<>> THEN Raise("ValueError")
  ELSE [status |-> "return", value |-> SetMax(Range(totals))]

analyze_pollution_for_country(df, c) ==
  LET country_data == FilterEq(df, "Country", c)
      years == [i \in 1..Len(country_data) |-> country_data[i]["Year"]]
      totals == [i \in 1..Len(country_data) |-> RowTotal(country_data[i])]
      avg_total == np_mean(totals)
      max_total == np_max(totals)
  IN  IF max_total.status = "raise" THEN max_total
      ELSE [status |-> "return",
            years |-> years,
            avg_total |-> avg_total,
            max_total |-> max_total.value]

-----------------------------------------------------------------------------
(* average_pollution_by_country, get_top_polluters *)

(* the exclude set without "World" *)
ExcludeWithoutWorld ==
  {"Asia", "Europe", "Upper-middle-income countries",
   "Lower-middle-income countries", "High-income countries",
   "Low-income countries", "North America", "Africa", "South America"}

exclude ==
  {"Asia", "Europe", "World", "Upper-middle-income countries",
   "Lower-middle-income countries", "High-income countries",
   "Low-income countries", "North America", "Africa", "South America"}

(* country_sums and country_counts before any row: two empty dicts; keys   *)
(* is the insertion order the dicts iterate in                             *)
EmptyDicts == [keys |-> <<>>, sums |-> <<>>, counts |-> <<>>]

(* dict.get(key, 0) on a dict kept as parallel sequences keys / values *)
DictGet(keys, values, key) ==
  IF \E i \in 1..Len(keys) : keys[i] = key
  THEN values[CHOOSE i \in 1..Len(keys) : keys[i] = key]
  ELSE 0

(* d[key] = value: a new key goes last, an existing key keeps its place *)
DictSet(keys, values, key, value) ==
  IF \E i \in 1..Len(keys) : keys[i] = key
  THEN [i \in 1..Len(keys) |-> IF keys[i] = key THEN value ELSE values[i]]
  ELSE Append(values, value)

DictKeys(keys, key) ==
  IF \E i \in 1..Len(keys) : keys[i] = key THEN keys ELSE Append(keys, key)

(* one iteration with country_counts.get(country, 1) + 1 *)
AccumulateRowCountFromOne(d, row) ==
  LET c == row["Country"]
      seen == \E i \in 1..Len(d.keys) : d.keys[i] = c
  IN  IF c \notin exclude
      THEN [keys |-> DictKeys(d.keys, c),
            sums |-> DictSet(d.keys, d.sums, c,
                             DictGet(d.keys, d.sums, c) + RowTotal(row)),
            counts |-> DictSet(d.keys, d.counts, c,
                               (IF seen THEN DictGet(d.keys, d.counts, c) ELSE 1) + 1)]
      ELSE d

(* one iteration of the loop over df.iterrows() *)
AccumulateRow(d, row) ==
  LET c == row["Country"]
  IN  IF c \notin exclude
      THEN [keys |-> DictKeys(d.keys, c),
            sums |-> DictSet(d.keys, d.sums, c,
                             DictGet(d.keys, d.sums, c) + RowTotal(row)),
            counts |-> DictSet(d.keys, d.counts, c,
                               DictGet(d.keys, d.counts, c) + 1)]
      ELSE d

RECURSIVE Accumulate(_, _)
(* the dicts after the first i rows *)
Accumulate(df, i) ==
  IF i = 0 THEN EmptyDicts ELSE AccumulateRow(Accumulate(df, i - 1), df[i])

(* the loop over country_sums building the (country, avg) list *)
Averages(d) ==
  [i \in 1..Len(d.keys) |->
     [country |-> d.keys[i], avg |-> TrueDiv(d.sums[i], d.counts[i])]]

(* averages.sort(key=lambda x: x[1]): ascending, stable *)
SortByAverage(averages) ==
  LET n == Len(averages)
      Precedes(j, i) ==
        \/ FGt(averages[i].avg, averages[j].avg)
        \/ averages[j].avg = averages[i].avg /\ j < i
      Rank(i) == 1 + Cardinality({j \in 1..n : Precedes(j, i)})
  IN  [r \in 1..n |-> averages[CHOOSE i \in 1..n : Rank(i) = r]]

(* averages.sort(key=lambda x: x[1]) followed by averages.reverse():       *)
(* descending, with the elements of equal key in reverse order             *)
SortByAverageThenReverse(averages) ==
  LET n == Len(averages)
      asc == SortByAverage(averages)
  IN  [r \in 1..n |-> asc[n + 1 - r]]

(* averages.sort(key=lambda x: x[1], reverse=True): list.sort is stable,   *)
(* and reverse=True keeps the original order of elements with equal keys   *)
SortByAverageReverse(averages) ==
  LET n == Len(averages)
      Precedes(j, i) ==
        \/ FGt(averages[j].avg, averages[i].avg)
        \/ averages[j].avg = averages[i].avg /\ j < i
      Rank(i) == 1 + Cardinality({j \in 1..n : Precedes(j, i)})
  IN  [r \in 1..n |-> averages[CHOOSE i \in 1..n : Rank(i) = r]]

(* the slice s[:n] *)
SliceTo(s, n) ==
  LET stop == IF n >= 0 THEN (IF n < Len(s) THEN n ELSE Len(s))
              ELSE (IF Len(s) + n > 0 THEN Len(s) + n ELSE 0)
  IN  SubSeq(s, 1, stop)

average_pollution_by_country(df, n) ==
  SliceTo(SortByAverageReverse(Averages(Accumulate(df, Len(df)))), n)

get_top_polluters(df, n) ==
  LET top_list == average_pollution_by_country(df, n)
  IN  [status |-> "return",
       countries |-> [i \in 1..Len(top_list) |-> top_list[i].country],
       values |-> [i \in 1..Len(top_list) |-> top_list[i].avg]]

-----------------------------------------------------------------------------
(* State machine *)

NoRet == [status |-> "none"]

NoFrame == [first |-> 0, last |-> 0]

(* no call made yet *)
Idle ==
  /\ op = "none"
  /\ country = ""
  /\ pollutant = ""
  /\ top_n = 0
  /\ frame = NoFrame
  /\ ret = NoRet

Init == table \in Tables /\ Idle

CallPercentChange ==
  /\ op = "none"
  /\ \E c \in Countries, pol \in QueryPollutants :
      \E p \in SortValuesYear(FilterEq(table, "Country", c)) :
        /\ op' = "percent_change_first_last_year"
        /\ country' = c
        /\ pollutant' = pol
        /\ top_n' = 0
        /\ frame' = PercentChangeLocals(table, c, pol, p)
        /\ ret' = percent_change_first_last_year(table, c, pol, p)
        /\ UNCHANGED table

CallYearlyTotals ==
  /\ op = "none"
  /\ \E c \in Countries, pol \in QueryPollutants :
        /\ op' = "yearly_country_totals"
        /\ country' = c
        /\ pollutant' = pol
        /\ top_n' = 0
        /\ frame' = NoFrame
        /\ ret' = yearly_country_totals(table, c, pol)
        /\ UNCHANGED table

CallAnalyze ==
  /\ op = "none"
  /\ \E c \in Countries :
        /\ op' = "analyze_pollution_for_country"
        /\ country' = c
        /\ pollutant' = ""
        /\ top_n' = 0
        /\ frame' = NoFrame
        /\ ret' = analyze_pollution_for_country(table, c)
        /\ UNCHANGED table

CallTopPolluters ==
  /\ op = "none"
  /\ \E n \in TopNs :
        /\ op' = "get_top_polluters"
        /\ country' = ""
        /\ pollutant' = ""
        /\ top_n' = n
        /\ frame' = NoFrame
        /\ ret' = get_top_polluters(table, n)
        /\ UNCHANGED table

(* the caller takes the result; the table is left as it was *)
Return ==
  /\ op # "none"
  /\ op' = "none"
  /\ country' = ""
  /\ pollutant' = ""
  /\ top_n' = 0
  /\ frame' = NoFrame
  /\ ret' = NoRet
  /\ UNCHANGED table

Next ==
  \/ CallPercentChange
  \/ CallYearlyTotals
  \/ CallAnalyze
  \/ CallTopPolluters
  \/ Return

Spec == Init /\ [][Next]_vars

(* analyze_pollution_for_country alone, on the longer tables *)
InitSummary == table \in SummaryTables /\ Idle

NextSummary ==
  \/ CallAnalyze
  \/ Return

SpecSummary == InitSummary /\ [][NextSummary]_vars

-----------------------------------------------------------------------------
(* Vocabulary of the properties, stated on the table itself *)

Min(a, b) == IF a < b THEN a ELSE b

(* positions of the rows of country c *)
RowsOf(c) == {i \in 1..Len(table) : table[i]["Country"] = c}

RECURSIVE SumOver(_, _)
(* the sum of f[i] over the positions i in S *)
SumOver(S, f) ==
  IF S = {} THEN 0
  ELSE LET x == CHOOSE x \in S : TRUE IN f[x] + SumOver(S \ {x}, f)

TotalAt == [i \in 1..Len(table) |-> RowTotal(table[i])]

ValueAt(pol) == [i \in 1..Len(table) |-> table[i][pol]]

YearsOf(c) == {table[i]["Year"] : i \in RowsOf(c)}

RowsOfYear(c, y) == {i \in RowsOf(c) : table[i]["Year"] = y}

(* the ten aggregate labels of the specification *)
ExcludedLabels ==
  {"Asia", "Europe", "World", "Upper-middle-income countries",
   "Lower-middle-income countries", "High-income countries",
   "Low-income countries", "North America", "Africa", "South America"}

(* the distinct country names of the table that are not excluded *)
RankedCountries ==
  {table[i]["Country"] : i \in 1..Len(table)} \ ExcludedLabels

(* sum of the per-row totals of c divided by its row count *)
MeanOf(c) == TrueDiv(SumOver(RowsOf(c), TotalAt), Cardinality(RowsOf(c)))

FirstRowOf(c) == SetMin(RowsOf(c))

(* the table without the rows that carry an excluded label *)
WithoutExcluded == SelectSeq(table, LAMBDA r : r["Country"] \notin ExcludedLabels)

Returned(name) == op = name /\ ret.status = "return"

-----------------------------------------------------------------------------
(* C1: get_top_polluters(table, top_n) with top_n >= 0 returns two parallel *)
(* sequences of length min(top_n, K), K the number of distinct non-excluded *)
(* countries; the averages are non-increasing; each is its country's sum of *)
(* per-row totals over its row count; and no country left out has an       *)
(* average strictly greater than a returned one.                            *)
C1_TopPolluters ==
  (op = "get_top_polluters" /\ top_n >= 0) =>
    LET n == Len(ret.countries)
    IN  /\ ret.status = "return"
        /\ n = Min(top_n, Cardinality(RankedCountries))
        /\ Len(ret.values) = n
        /\ \A i, j \in 1..n : i < j => ~FGt(ret.values[j], ret.values[i])
        /\ \A i \in 1..n :
             /\ ret.countries[i] \in RankedCountries
             /\ ret.values[i] = MeanOf(ret.countries[i])
        /\ \A c \in RankedCountries \ Range(ret.countries) :
             \A i \in 1..n : ~FGt(MeanOf(c), ret.values[i])

(* a truncating call: two ranked countries with different averages, the     *)
(* returned one averaged over several rows, top_n = 1                       *)
C1_Witness ==
  /\ op = "get_top_polluters"
  /\ top_n = 1
  /\ Cardinality(RankedCountries) = 2
  /\ Len(ret.countries) = 1
  /\ Cardinality(RowsOf(ret.countries[1])) = 2
  /\ \E c \in RankedCountries : FGt(ret.values[1], MeanOf(c))

-----------------------------------------------------------------------------
(* C2: the country list of get_top_polluters never contains one of the ten  *)
(* excluded labels, rows with those labels contribute to no returned        *)
(* average (the result is that of the table without them), and when every   *)
(* row carries an excluded label, or the table is empty, the call returns   *)
(* two empty sequences and raises nothing.                                  *)
C2_ExcludedLabels ==
  op = "get_top_polluters" =>
    /\ ret.status = "return"
    /\ Range(ret.countries) \cap ExcludedLabels = {}
    /\ ret = get_top_polluters(WithoutExcluded, top_n)
    /\ \A i \in 1..Len(ret.countries) : ret.values[i] = MeanOf(ret.countries[i])
    /\ RankedCountries = {} => (ret.countries = <<>> /\ ret.values = <<>>)

(* a table of a country row and a row of an excluded label, both ranked for *)
C2_Witness ==
  /\ op = "get_top_polluters"
  /\ top_n = 2
  /\ RowsOf("World") # {}
  /\ Len(ret.countries) = 1

-----------------------------------------------------------------------------
(* C3: yearly_country_totals returns three sequences of equal length, the   *)
(* number of distinct Year values among the country's rows (three empty     *)
(* sequences for a country without rows); years is strictly ascending, and  *)
(* totals[i] and pollutant_sums[i] are computed over exactly the country's  *)
(* rows whose Year is years[i].                                             *)
C3_YearlyShape ==
  op = "yearly_country_totals" =>
    LET n == Len(ret.years)
    IN  /\ ret.status = "return"
        /\ n = Cardinality(YearsOf(country))
        /\ Len(ret.total_emissions) = n
        /\ Len(ret.pollutant_emissions) = n
        /\ \A i, j \in 1..n : i < j => ret.years[i] < ret.years[j]
        /\ \A i \in 1..n :
             /\ ret.years[i] \in YearsOf(country)
             /\ ret.total_emissions[i] =
                  SumOver(RowsOfYear(country, ret.years[i]), TotalAt)
             /\ ret.pollutant_emissions[i] =
                  SumOver(RowsOfYear(country, ret.years[i]), ValueAt(pollutant))

(* three rows of the country over two years, the later year first in the    *)
(* table, one year repeated                                                 *)
C3_Witness ==
  /\ op = "yearly_country_totals"
  /\ Cardinality(RowsOf(country)) = 3
  /\ ret.years = <<1750, 2019>>
  /\ table[FirstRowOf(country)]["Year"] = 2019

-----------------------------------------------------------------------------
(* C4: the sum of pollutant_sums returned by yearly_country_totals is the   *)
(* sum of that pollutant over all rows of the country, and the sum of       *)
(* totals is the sum of calc_total_emissions over all rows of the country:  *)
(* rows repeating a (Country, Year) pair are summed, none dropped, none     *)
(* counted twice.                                                           *)
C4_YearlySums ==
  op = "yearly_country_totals" =>
    /\ SumSeq(ret.pollutant_emissions) = SumOver(RowsOf(country), ValueAt(pollutant))
    /\ SumSeq(ret.total_emissions) = SumOver(RowsOf(country), TotalAt)

(* two rows repeat a (Country, Year) pair with non-zero values *)
C4_Witness ==
  /\ op = "yearly_country_totals"
  /\ \E i, j \in RowsOf(country) :
       /\ i # j
       /\ table[i]["Year"] = table[j]["Year"]
       /\ table[i][pollutant] > 0
       /\ table[j][pollutant] > 0
  /\ Len(ret.years) = 1
  /\ ret.pollutant_emissions[1] > 150

-----------------------------------------------------------------------------
(* C5, as stated: for a country with at least one row,                      *)
(* analyze_pollution_for_country returns max_total >= average_total, and    *)
(* average_total times the number of matching rows is the sum of the        *)
(* per-row totals; every matching row is counted, rows repeating a year     *)
(* included.                                                                *)
C5_Original ==
  (op = "analyze_pollution_for_country" /\ RowsOf(country) # {}) =>
    /\ ret.status = "return"
    /\ ~FGt(ret.avg_total, Float(ret.max_total))
    /\ FMul(ret.avg_total, Cardinality(RowsOf(country)))
         = Float(SumOver(RowsOf(country), TotalAt))
    /\ Len(ret.years) = Cardinality(RowsOf(country))

(* C5, amended: max_total >= average_total; average_total is the float      *)
(* nearest to the sum of the per-row totals divided by the number of        *)
(* matching rows, so that average_total times that number is the sum when   *)
(* the division is exact (the number of rows divides the sum or is a power  *)
(* of two) and is otherwise within one unit in the last place of it; every  *)
(* matching row is counted, rows repeating a year included.                 *)
C5_Summary ==
  (op = "analyze_pollution_for_country" /\ RowsOf(country) # {}) =>
    LET n == Cardinality(RowsOf(country))
        sum == SumOver(RowsOf(country), TotalAt)
        back == FMul(ret.avg_total, n)
    IN  /\ ret.status = "return"
        /\ ~FGt(ret.avg_total, Float(ret.max_total))
        /\ ret.avg_total = TrueDiv(sum, n)
        /\ (sum % n = 0 \/ n \in {1, 2, 4, 8}) => back = Float(sum)
        /\ \/ back = Float(sum)
           \/ back = RoundUp(1, Float(sum).e, Float(sum).m)
           \/ Float(sum) = RoundUp(1, back.e, back.m)
        /\ Len(ret.years) = n

(* seven rows repeating a year, a maximum above the mean, and a mean that   *)
(* times seven is not the sum                                               *)
C5_Witness ==
  /\ Returned("analyze_pollution_for_country")
  /\ Cardinality(RowsOf(country)) = 7
  /\ Cardinality(YearsOf(country)) = 1
  /\ FGt(Float(ret.max_total), ret.avg_total)
  /\ FMul(ret.avg_total, 7) # Float(SumOver(RowsOf(country), TotalAt))

-----------------------------------------------------------------------------
(* C6, as stated: whenever the pollutant values of the first and of the     *)
(* last row in ascending-Year order are equal, the percent returned by      *)
(* percent_change_first_last_year is 0.                                     *)
C6_Original ==
  (Returned("percent_change_first_last_year") /\ frame.first = frame.last) =>
    ret.change = Float(0)

(* C6, amended: when those two values are equal and not zero the percent is *)
(* 0; when both are zero the percent is nan (0 / 0), not 0.                 *)
C6_RoundTrip ==
  (Returned("percent_change_first_last_year") /\ frame.first = frame.last) =>
    /\ frame.first # 0 => ret.change = Float(0)
    /\ frame.first = 0 => ret.change = NaN

(* two rows of different years with equal non-zero values *)
C6_Witness ==
  /\ Returned("percent_change_first_last_year")
  /\ ret.start_year < ret.end_year
  /\ frame.first = frame.last
  /\ frame.first # 0
  /\ ret.change = Float(0)

-----------------------------------------------------------------------------
(* the percent of a first and a last value: (last - first) / first * 100,   *)
(* which is nan or +-inf when first is 0                                    *)
ExpectedPercent(first, last) ==
  IF first # 0 THEN FMul(TrueDiv(last - first, first), 100)
  ELSE IF last = 0 THEN NaN
  ELSE Inf(IF last > 0 THEN 1 ELSE 0 - 1)

(* C7, as stated: percent_change_first_last_year orders the country's rows  *)
(* by Year with ties broken by original row order, so that first is the     *)
(* value of the earliest-positioned row of the minimum Year, last that of   *)
(* the latest-positioned row of the maximum Year, and the result is         *)
(* ((last - first) / first * 100, minimum Year, maximum Year).              *)
C7_Original ==
  (op = "percent_change_first_last_year" /\ RowsOf(country) # {}) =>
    LET lo == SetMin(YearsOf(country))
        hi == SetMax(YearsOf(country))
        i == SetMin(RowsOfYear(country, lo))
        j == SetMax(RowsOfYear(country, hi))
    IN  /\ ret.status = "return"
        /\ ret.start_year = lo
        /\ ret.end_year = hi
        /\ ret.change = ExpectedPercent(table[i][pollutant], table[j][pollutant])

(* C7, amended: start_year is the country's minimum Year and end_year its   *)
(* maximum Year; first is the value of one of the rows of the minimum Year  *)
(* and last that of one of the rows of the maximum Year, of another row     *)
(* unless the country has a single row; the percent is                      *)
(* (last - first) / first * 100.  Which of several rows of an extreme Year  *)
(* is taken is not determined.                                              *)
C7_PercentChange ==
  (op = "percent_change_first_last_year" /\ RowsOf(country) # {}) =>
    LET lo == SetMin(YearsOf(country))
        hi == SetMax(YearsOf(country))
    IN  /\ ret.status = "return"
        /\ ret.start_year = lo
        /\ ret.end_year = hi
        /\ \E i \in RowsOfYear(country, lo), j \in RowsOfYear(country, hi) :
             /\ i # j \/ Cardinality(RowsOf(country)) = 1
             /\ ret.change = ExpectedPercent(table[i][pollutant], table[j][pollutant])

(* the example (1750, 100), (2019, 150) gives 50.0, 1750, 2019, here with   *)
(* the 2019 row ahead of the 1750 row in the table                          *)
C7_Witness ==
  /\ Returned("percent_change_first_last_year")
  /\ Cardinality(RowsOf(country)) = 2
  /\ table[FirstRowOf(country)]["Year"] = 2019
  /\ ret.change = Float(50)
  /\ ret.start_year = 1750
  /\ ret.end_year = 2019

-----------------------------------------------------------------------------
(* C8: when no row matches the requested country,                           *)
(* percent_change_first_last_year and analyze_pollution_for_country each    *)
(* end in a fault that reaches the caller; neither returns a result tuple   *)
(* or a default value.                                                      *)
C8_EmptySelection ==
  /\ (op = "percent_change_first_last_year" /\ RowsOf(country) = {}) =>
       (ret.status = "raise" /\ ret.exc = "IndexError")
  /\ (op = "analyze_pollution_for_country" /\ RowsOf(country) = {}) =>
       (ret.status = "raise" /\ ret.exc = "ValueError")

(* a summary asked of a non-empty table for a country it has no row of *)
C8_Witness ==
  /\ op = "analyze_pollution_for_country"
  /\ Len(table) > 0
  /\ RowsOf(country) = {}
  /\ ret.status = "raise"

-----------------------------------------------------------------------------
(* C9: in get_top_polluters, of two non-excluded countries with equal       *)
(* averages the one whose first row is earlier in the table is placed       *)
(* first, and is the one kept when the truncation cuts between them.        *)
C9_TieOrder ==
  op = "get_top_polluters" =>
    LET n == Len(ret.countries)
    IN  /\ \A i, j \in 1..n :
             (i < j /\ ret.values[i] = ret.values[j]) =>
               FirstRowOf(ret.countries[i]) < FirstRowOf(ret.countries[j])
        /\ \A c \in RankedCountries \ Range(ret.countries) :
             \A i \in 1..n :
               MeanOf(c) = ret.values[i] =>
                 FirstRowOf(ret.countries[i]) < FirstRowOf(c)

(* two countries of equal average, both returned *)
C9_Witness ==
  /\ op = "get_top_polluters"
  /\ Len(ret.countries) = 2
  /\ ret.values[1] = ret.values[2]
  /\ ret.values[1] # Float(0)
  /\ FirstRowOf(ret.countries[1]) < FirstRowOf(ret.countries[2])

-----------------------------------------------------------------------------
(* C10: when top_n is at least the number of distinct non-excluded          *)
(* countries, every non-excluded country c of the table is in the result   *)
(* of get_top_polluters, paired with an average equal to the average_total  *)
(* of analyze_pollution_for_country(table, c) and to the sum of the totals  *)
(* of yearly_country_totals(table, c, p) over c's row count, for any p.     *)
C10_AveragesAgree ==
  (op = "get_top_polluters" /\ top_n >= Cardinality(RankedCountries)) =>
    /\ Range(ret.countries) = RankedCountries
    /\ \A i \in 1..Len(ret.countries) :
         LET c == ret.countries[i]
         IN  /\ analyze_pollution_for_country(table, c).status = "return"
             /\ ret.values[i] = analyze_pollution_for_country(table, c).avg_total
             /\ \A p \in QueryPollutants :
                  ret.values[i] =
                    TrueDiv(SumSeq(yearly_country_totals(table, c, p).total_emissions),
                            Cardinality(RowsOf(c)))

(* two countries ranked, one of them with rows repeating a year *)
C10_Witness ==
  /\ op = "get_top_polluters"
  /\ top_n = 2
  /\ Len(ret.countries) = 2
  /\ \E i \in 1..2 :
       /\ Cardinality(RowsOf(ret.countries[i])) = 2
       /\ Cardinality(YearsOf(ret.countries[i])) = 1
       /\ ret.values[i] # Float(0)

====
